---- MODULE Spec2Model ----
(***************************************************************************)
(* A state-machine model of MainWindow (src/app.py): the frame timeline,   *)
(* the playback timer, GIF import and GIF export.  Every slot of the       *)
(* window is one action; dialogs, the image loader, the decoder and the    *)
(* encoder are inputs drawn from small sets.  Indices are 0-based as in    *)
(* the source: frame i of the source is frames[i + 1] here.                *)
(***************************************************************************)
EXTENDS Integers, Sequences, FiniteSets, TLC

VARIABLES
    frames,               \* self.frames: sequence of FrameData records
    current_index,        \* self.current_index (-1: no frame)
    tree_current,         \* index held by self.tree.currentItem() (-1: none)
    default_duration_ms,  \* self.default_duration_ms
    spin_default_dur,     \* value shown by the self.spin_default_dur spin box
    animation_mode,       \* self.animation_mode
    is_playing,           \* self.is_playing
    play_timer,           \* self.play_timer: 0 when stopped, else its interval
    wave_direction,       \* self.wave_direction
    unsaved_changes,      \* self.unsaved_changes
    current_gif_path,     \* self.current_gif_path
    running,              \* the event loop is alive (no exception escaped a slot)
    out,                  \* what the last slot showed and wrote (see NoOut)
    n_added,              \* frames appended by add_images so far
    n_removed,            \* frames deleted by remove_selected so far
    n_duplicated          \* frames inserted by duplicate_selected so far

vars == <<frames, current_index, tree_current, default_duration_ms,
          spin_default_dur, animation_mode, is_playing, play_timer,
          wave_direction, unsaved_changes, current_gif_path, running, out,
          n_added, n_removed, n_duplicated>>

counters == <<n_added, n_removed, n_duplicated>>

-----------------------------------------------------------------------------
(* Bounds of the model *)

\* longest timeline the model builds
MaxFrames == 2
\* how many times a display name may carry the "_copy" suffix
MaxCopies == 1
\* longest timeline of the playback specification
MaxPlayFrames == 3
\* longest timeline of the list-editing specification
MaxEditFrames == 3
\* most frames add_images appends in the list-editing specification
MaxAdds == 4
\* most copies duplicate_selected inserts in the list-editing specification
MaxDuplicates == 2

(* Program constants *)

\* QInputDialog.getInt(..., 10, 60000, 10): the range of a frame's duration
MinDurationMs == 10
MaxDurationMs == 60000
\* self.default_duration_ms: int = 100
InitialDefaultMs == 100
\* max(10, dur): the floor of the timer interval
MinTimerMs == 10
\* the range of the default-duration spin box (set up by build_main_ui)
SpinMinMs == 10
SpinMaxMs == 60000

(* Inputs *)

\* files offered by the "Add Images" dialog
AddFiles == {"a.png", "b.png"}
\* numbers a user types into a duration field, before the widget's range applies
TypedDurations == {0, 100}
\* durations a decoded sub-image may declare; NoDuration: the format omits it
GifDurations == {0, 5, 40}
NoDuration == -1
\* the file picked in the "Open Animated GIF" dialog
OpenPath == [stem |-> "g", suffix |-> ".gif"]
\* the file names typed in the "Save Animated GIF As" dialog
SavePaths == {[stem |-> "g", suffix |-> ".gif"], [stem |-> "out", suffix |-> ""]}
\* a dialog dismissed without a choice returns an empty path
NoPath == [stem |-> "", suffix |-> ""]

Modes == {"loop", "wave"}
Responses == {"Yes", "No", "Cancel"}

-----------------------------------------------------------------------------
(* Helpers *)

Max(a, b) == IF a >= b THEN a ELSE b
Min(a, b) == IF a <= b THEN a ELSE b

\* max(lo, min(v, hi))
Clamp(v, lo, hi) == Max(lo, Min(v, hi))

\* Python's a % n for n > 0 (the result is never negative)
PyMod(a, n) == a % n

FrameData(source_path, display_name, duration_ms, is_custom_duration, is_checked) ==
    [source_path |-> source_path, display_name |-> display_name,
     duration_ms |-> duration_ms, is_custom_duration |-> is_custom_duration,
     is_checked |-> is_checked]

\* what new_project, open_gif, save_gif and save_gif_as show and write: the
\* slot's name, the answer given to the "Unsaved Changes" question, the
\* message box of _save_gif_to_path ("none": not called), the slot's own
\* message box, what load_frame_image gave (the first frame at its natural
\* size, the indices of the frames at the canonical size), the arguments of
\* the encoder call when one is made (target, images, durations) and whether
\* the call wrote the file; every other slot shows and writes nothing
NoOut == [handler |-> "", resp |-> "none", save |-> "none", message |-> "",
          first_ok |-> FALSE, loaded |-> {}, path |-> NoPath, images |-> <<>>,
          durations |-> <<>>, wrote |-> FALSE]

\* rebuild_tree: the tree is cleared and refilled; the row of current_index
\* becomes the current item when that index is in range
RebuildTree(fr, cur) == IF 0 <= cur /\ cur < Len(fr) THEN cur ELSE -1

\* number of "_copy" suffixes a display name carries
Copies(f) == (Len(f.display_name) - Len(f.source_path)) \div Len("_copy")

-----------------------------------------------------------------------------
(* Playback *)

\* the interval start_playback gives the timer
StartInterval(fr, cur, dflt) ==
    Max(MinTimerMs, IF cur >= 0 THEN fr[cur + 1].duration_ms ELSE dflt)

\* get_next_index_for_mode with "elif self.current_index > n - 1": the
\* direction is not reversed at the last frame
NextWaveDirectionNoTurn(n, cur, mode, dir) ==
    IF n = 0 \/ mode # "wave" THEN dir
    ELSE IF cur <= 0 THEN 1
    ELSE IF cur > n - 1 THEN -1
    ELSE dir

\* get_next_index_for_mode: the new wave_direction
NextWaveDirection(n, cur, mode, dir) ==
    IF n = 0 \/ mode # "wave" THEN dir
    ELSE IF cur <= 0 THEN 1
    ELSE IF cur >= n - 1 THEN -1
    ELSE dir

\* get_next_index_for_mode with min(n - 1, self.current_index + 1) in place
\* of (self.current_index + 1) % n: the last frame is not left
NextIndexForModeNoWrap(n, cur, mode, dir) ==
    IF n = 0 THEN 0
    ELSE IF mode = "loop" THEN Min(n - 1, cur + 1)
    ELSE IF mode = "wave"
         THEN Max(0, Min(n - 1, cur + NextWaveDirection(n, cur, mode, dir)))
    ELSE Min(n - 1, cur + 1)

\* get_next_index_for_mode: the returned index
NextIndexForMode(n, cur, mode, dir) ==
    IF n = 0 THEN 0
    ELSE IF mode = "loop" THEN PyMod(cur + 1, n)
    ELSE IF mode = "wave"
         THEN Max(0, Min(n - 1, cur + NextWaveDirection(n, cur, mode, dir)))
    ELSE PyMod(cur + 1, n)

\* advance_frame_for_playback with dur read before self.current_index is
\* assigned: the delay is that of the frame just left
AdvanceFrameForPlaybackOldDuration ==
    /\ running
    /\ play_timer # 0
    /\ IF frames = <<>>
       THEN /\ is_playing' = FALSE
            /\ play_timer' = 0
            /\ UNCHANGED <<current_index, wave_direction>>
       ELSE LET n == Len(frames)
                nxt == NextIndexForMode(n, current_index, animation_mode, wave_direction)
            IN /\ current_index' = nxt
               /\ wave_direction' =
                      NextWaveDirection(n, current_index, animation_mode, wave_direction)
               /\ play_timer' = Max(MinTimerMs, frames[current_index + 1].duration_ms)
               /\ UNCHANGED is_playing
    /\ UNCHANGED <<frames, tree_current, default_duration_ms, spin_default_dur,
                   animation_mode, unsaved_changes, current_gif_path, running>>

\* advance_frame_for_playback that returns on an empty timeline without
\* the call of self.stop_playback()
AdvanceFrameForPlaybackKeepsTimer ==
    /\ running
    /\ play_timer # 0
    /\ IF frames = <<>>
       THEN UNCHANGED <<is_playing, play_timer, current_index, wave_direction>>
       ELSE LET n == Len(frames)
                nxt == NextIndexForMode(n, current_index, animation_mode, wave_direction)
            IN /\ current_index' = nxt
               /\ wave_direction' =
                      NextWaveDirection(n, current_index, animation_mode, wave_direction)
               /\ play_timer' = Max(MinTimerMs, frames[nxt + 1].duration_ms)
               /\ UNCHANGED is_playing
    /\ UNCHANGED <<frames, tree_current, default_duration_ms, spin_default_dur,
                   animation_mode, unsaved_changes, current_gif_path, running>>

\* advance_frame_for_playback with a call of self.mark_unsaved()
AdvanceFrameForPlaybackMarksUnsaved ==
    /\ running
    /\ play_timer # 0
    /\ IF frames = <<>>
       THEN /\ is_playing' = FALSE
            /\ play_timer' = 0
            /\ UNCHANGED <<current_index, wave_direction, unsaved_changes>>
       ELSE LET n == Len(frames)
                nxt == NextIndexForMode(n, current_index, animation_mode, wave_direction)
            IN /\ current_index' = nxt
               /\ wave_direction' =
                      NextWaveDirection(n, current_index, animation_mode, wave_direction)
               /\ play_timer' = Max(MinTimerMs, frames[nxt + 1].duration_ms)
               /\ unsaved_changes' = TRUE
               /\ UNCHANGED is_playing
    /\ UNCHANGED <<frames, tree_current, default_duration_ms, spin_default_dur,
                   animation_mode, current_gif_path, running>>

\* the timer fires: advance_frame_for_playback
AdvanceFrameForPlayback ==
    /\ running
    /\ play_timer # 0
    /\ IF frames = <<>>
       THEN /\ is_playing' = FALSE
            /\ play_timer' = 0
            /\ UNCHANGED <<current_index, wave_direction>>
       ELSE LET n == Len(frames)
                nxt == NextIndexForMode(n, current_index, animation_mode, wave_direction)
            IN /\ current_index' = nxt
               /\ wave_direction' =
                      NextWaveDirection(n, current_index, animation_mode, wave_direction)
               /\ play_timer' = Max(MinTimerMs, frames[nxt + 1].duration_ms)
               /\ UNCHANGED is_playing
    /\ UNCHANGED <<frames, tree_current, default_duration_ms, spin_default_dur,
                   animation_mode, unsaved_changes, current_gif_path, running>>

\* toggle_play_pause with a start_playback that lacks "if not self.frames:
\* return"
TogglePlayPauseStartsEmpty ==
    /\ running
    /\ IF is_playing
       THEN /\ is_playing' = FALSE
            /\ play_timer' = 0
       ELSE /\ is_playing' = TRUE
            /\ play_timer' = Max(MinTimerMs,
                                 IF current_index >= 0 /\ frames # <<>>
                                 THEN frames[current_index + 1].duration_ms
                                 ELSE default_duration_ms)
    /\ UNCHANGED <<frames, current_index, tree_current, default_duration_ms,
                   spin_default_dur, animation_mode, wave_direction,
                   unsaved_changes, current_gif_path, running>>

\* toggle_play_pause: stop_playback when playing, else start_playback
TogglePlayPause ==
    /\ running
    /\ IF is_playing
       THEN /\ is_playing' = FALSE
            /\ play_timer' = 0
       ELSE IF frames = <<>>
            THEN UNCHANGED <<is_playing, play_timer>>
            ELSE /\ is_playing' = TRUE
                 /\ play_timer' = StartInterval(frames, current_index, default_duration_ms)
    /\ UNCHANGED <<frames, current_index, tree_current, default_duration_ms,
                   spin_default_dur, animation_mode, wave_direction,
                   unsaved_changes, current_gif_path, running>>

\* prev_frame_clicked / next_frame_clicked without self.stop_playback()
StepFrameClickedKeepsPlaying(step) ==
    /\ running
    /\ IF frames = <<>>
       THEN UNCHANGED <<is_playing, play_timer, current_index>>
       ELSE /\ UNCHANGED <<is_playing, play_timer>>
            /\ current_index' = PyMod(current_index + step, Len(frames))
    /\ UNCHANGED <<frames, tree_current, default_duration_ms, spin_default_dur,
                   animation_mode, wave_direction, unsaved_changes,
                   current_gif_path, running>>

\* prev_frame_clicked (step = -1) and next_frame_clicked (step = 1)
StepFrameClicked(step) ==
    /\ running
    /\ IF frames = <<>>
       THEN UNCHANGED <<is_playing, play_timer, current_index>>
       ELSE /\ is_playing' = FALSE
            /\ play_timer' = 0
            /\ current_index' = PyMod(current_index + step, Len(frames))
    /\ UNCHANGED <<frames, tree_current, default_duration_ms, spin_default_dur,
                   animation_mode, wave_direction, unsaved_changes,
                   current_gif_path, running>>

PrevFrameClicked == StepFrameClicked(-1)
NextFrameClicked == StepFrameClicked(1)

-----------------------------------------------------------------------------
(* List actions *)

RECURSIVE NewFramesInitialDefault(_, _)
\* add_images with duration_ms=100 in place of self.default_duration_ms
NewFramesInitialDefault(files, dflt) ==
    IF files = <<>> THEN <<>>
    ELSE <<FrameData(Head(files), Head(files), InitialDefaultMs, FALSE, FALSE)>>
         \o NewFramesInitialDefault(Tail(files), dflt)

RECURSIVE NewFrames(_, _)
\* the FrameData records add_images builds for the chosen files
NewFrames(files, dflt) ==
    IF files = <<>> THEN <<>>
    ELSE <<FrameData(Head(files), Head(files), dflt, FALSE, FALSE)>>
         \o NewFrames(Tail(files), dflt)

\* the lists of files the "Add Images" dialog can return: the lists over
\* files whose length is in lens
FileChoices(files, lens) == UNION {[1..n -> files] : n \in lens}

\* add_images
AddImages(files) ==
    /\ running
    /\ IF files = <<>>
       THEN UNCHANGED <<frames, current_index, tree_current, unsaved_changes,
                        is_playing, play_timer>>
       ELSE LET fr  == frames \o NewFrames(files, default_duration_ms)
                cur == IF current_index = -1 THEN 0 ELSE current_index
            IN /\ frames' = fr
               /\ current_index' = cur
               /\ unsaved_changes' = TRUE
               /\ tree_current' = RebuildTree(fr, cur)
               /\ IF ~is_playing
                  THEN /\ is_playing' = TRUE
                       /\ play_timer' = StartInterval(fr, cur, default_duration_ms)
                  ELSE UNCHANGED <<is_playing, play_timer>>
    /\ UNCHANGED <<default_duration_ms, spin_default_dur, animation_mode,
                   wave_direction, current_gif_path, running>>

\* the sequence without its element at 0-based index idx
DeleteAt(fr, idx) == SubSeq(fr, 1, idx) \o SubSeq(fr, idx + 2, Len(fr))

\* frames[idx] = dup in place of frames.insert(idx, dup)
InsertAtOverwrites(fr, idx, x) ==
    IF idx < Len(fr) THEN [fr EXCEPT ![idx + 1] = x] ELSE fr \o <<x>>

\* the sequence with x inserted so that it gets 0-based index idx
InsertAt(fr, idx, x) == SubSeq(fr, 1, idx) \o <<x>> \o SubSeq(fr, idx + 1, Len(fr))

\* the cursor remove_selected leaves
CursorAfterRemove(fr, idx) ==
    IF fr = <<>> THEN -1 ELSE Max(0, Min(idx, Len(fr) - 1))

\* remove_selected
RemoveSelected ==
    /\ running
    /\ LET idx == tree_current
       IN IF idx < 0 \/ idx >= Len(frames)
          THEN UNCHANGED <<frames, current_index, tree_current, unsaved_changes>>
          ELSE LET fr  == DeleteAt(frames, idx)
                   cur == CursorAfterRemove(fr, idx)
               IN /\ frames' = fr
                  /\ current_index' = cur
                  /\ unsaved_changes' = TRUE
                  /\ tree_current' = RebuildTree(fr, cur)
    /\ UNCHANGED <<default_duration_ms, spin_default_dur, animation_mode,
                   is_playing, play_timer, wave_direction, current_gif_path, running>>


\* duplicate_selected building the copy as add_images builds a frame:
\* duration_ms=self.default_duration_ms, is_custom_duration=False
DuplicateOfResetsDuration(f) ==
    FrameData(f.source_path, f.display_name \o "_copy", default_duration_ms,
              FALSE, f.is_checked)

\* the copy duplicate_selected makes of a frame
DuplicateOf(f) ==
    FrameData(f.source_path, f.display_name \o "_copy", f.duration_ms,
              f.is_custom_duration, f.is_checked)

\* duplicate_selected
DuplicateSelected ==
    /\ running
    /\ LET idx == tree_current
       IN IF idx < 0 \/ idx >= Len(frames)
          THEN UNCHANGED <<frames, current_index, tree_current, unsaved_changes>>
          ELSE LET fr == InsertAt(frames, idx + 1, DuplicateOf(frames[idx + 1]))
               IN /\ frames' = fr
                  /\ current_index' = idx + 1
                  /\ unsaved_changes' = TRUE
                  /\ tree_current' = RebuildTree(fr, idx + 1)
    /\ UNCHANGED <<default_duration_ms, spin_default_dur, animation_mode,
                   is_playing, play_timer, wave_direction, current_gif_path, running>>

\* the sequence with the elements at 0-based indices i and j exchanged
Swap(fr, i, j) == [fr EXCEPT ![i + 1] = fr[j + 1], ![j + 1] = fr[i + 1]]

\* move_up without the call of self.mark_unsaved()
MoveUpUnmarked ==
    /\ running
    /\ LET idx == tree_current
       IN IF idx <= 0
          THEN UNCHANGED <<frames, current_index, tree_current, unsaved_changes>>
          ELSE LET fr == Swap(frames, idx - 1, idx)
               IN /\ frames' = fr
                  /\ current_index' = idx - 1
                  /\ UNCHANGED unsaved_changes
                  /\ tree_current' = RebuildTree(fr, idx - 1)
    /\ UNCHANGED <<default_duration_ms, spin_default_dur, animation_mode,
                   is_playing, play_timer, wave_direction, current_gif_path, running>>

\* move_up
MoveUp ==
    /\ running
    /\ LET idx == tree_current
       IN IF idx <= 0
          THEN UNCHANGED <<frames, current_index, tree_current, unsaved_changes>>
          ELSE LET fr == Swap(frames, idx - 1, idx)
               IN /\ frames' = fr
                  /\ current_index' = idx - 1
                  /\ unsaved_changes' = TRUE
                  /\ tree_current' = RebuildTree(fr, idx - 1)
    /\ UNCHANGED <<default_duration_ms, spin_default_dur, animation_mode,
                   is_playing, play_timer, wave_direction, current_gif_path, running>>

\* move_down
MoveDown ==
    /\ running
    /\ LET idx == tree_current
       IN IF idx < 0 \/ idx >= Len(frames) - 1
          THEN UNCHANGED <<frames, current_index, tree_current, unsaved_changes>>
          ELSE LET fr == Swap(frames, idx + 1, idx)
               IN /\ frames' = fr
                  /\ current_index' = idx + 1
                  /\ unsaved_changes' = TRUE
                  /\ tree_current' = RebuildTree(fr, idx + 1)
    /\ UNCHANGED <<default_duration_ms, spin_default_dur, animation_mode,
                   is_playing, play_timer, wave_direction, current_gif_path, running>>

\* the user makes row idx the current item of the tree with the keyboard;
\* no slot is connected to that, get_selected_index reads it later
SelectRow(idx) ==
    /\ running
    /\ idx # tree_current
    /\ tree_current' = idx
    /\ UNCHANGED <<frames, current_index, default_duration_ms, spin_default_dur,
                   animation_mode, is_playing, play_timer, wave_direction,
                   unsaved_changes, current_gif_path, running>>

\* on_tree_item_clicked on a column other than the duration column
ToggleChecked(idx) ==
    /\ running
    /\ LET fr == [frames EXCEPT ![idx + 1].is_checked = ~frames[idx + 1].is_checked]
       IN /\ frames' = fr
          /\ current_index' = idx
          /\ unsaved_changes' = TRUE
          /\ tree_current' = RebuildTree(fr, idx)
    /\ UNCHANGED <<default_duration_ms, spin_default_dur, animation_mode,
                   is_playing, play_timer, wave_direction, current_gif_path, running>>

\* QInputDialog.getInt(self, title, label, value, 10, 60000, 10): the dialog
\* keeps what is typed inside its range
GetInt(typed) == Clamp(typed, MinDurationMs, MaxDurationMs)

\* edit_duration_for_frame, reached by a click or a double click on the
\* duration column of row idx (the click makes the row the current item);
\* ok is FALSE when the dialog is dismissed
EditDurationForFrame(idx, typed, ok) ==
    /\ running
    /\ IF ok
       THEN LET val == GetInt(typed)
                fr  == [frames EXCEPT ![idx + 1].duration_ms = val,
                                      ![idx + 1].is_custom_duration =
                                          (val # default_duration_ms)]
            IN /\ frames' = fr
               /\ current_index' = idx
               /\ unsaved_changes' = TRUE
               /\ tree_current' = RebuildTree(fr, idx)
       ELSE /\ tree_current' = idx
            /\ UNCHANGED <<frames, current_index, unsaved_changes>>
    /\ UNCHANGED <<default_duration_ms, spin_default_dur, animation_mode,
                   is_playing, play_timer, wave_direction, current_gif_path, running>>

\* the loop of on_default_duration_changed without "if not
\* f.is_custom_duration"
ApplyDefaultToAll(fr, value) ==
    [i \in 1..Len(fr) |-> [fr[i] EXCEPT !.duration_ms = value]]

\* the loop of on_default_duration_changed over self.frames
ApplyDefault(fr, value) ==
    [i \in 1..Len(fr) |->
        IF fr[i].is_custom_duration THEN fr[i]
        ELSE [fr[i] EXCEPT !.duration_ms = value]]

\* the value the spin box takes when asked to show v
SpinValue(v) == Clamp(v, SpinMinMs, SpinMaxMs)

\* on_default_duration_changed: the user changes the spin box to a new value
OnDefaultDurationChanged(typed) ==
    /\ running
    /\ LET value == SpinValue(typed)
           fr    == ApplyDefault(frames, value)
       IN /\ value # spin_default_dur
          /\ spin_default_dur' = value
          /\ default_duration_ms' = value
          /\ frames' = fr
          /\ unsaved_changes' = TRUE
          /\ tree_current' = RebuildTree(fr, current_index)
    /\ UNCHANGED <<current_index, animation_mode, is_playing, play_timer,
                   wave_direction, current_gif_path, running>>

\* the loop of on_overwrite_all_clicked over self.frames
OverwriteAll(fr, dflt) ==
    [i \in 1..Len(fr) |->
        [fr[i] EXCEPT !.duration_ms = dflt, !.is_custom_duration = FALSE]]

\* on_overwrite_all_clicked
OnOverwriteAllClicked ==
    /\ running
    /\ LET fr == OverwriteAll(frames, default_duration_ms)
       IN /\ frames' = fr
          /\ unsaved_changes' = TRUE
          /\ tree_current' = RebuildTree(fr, current_index)
    /\ UNCHANGED <<current_index, default_duration_ms, spin_default_dur,
                   animation_mode, is_playing, play_timer, wave_direction,
                   current_gif_path, running>>

\* on_mode_changed: the combo box moves to its other entry
OnModeChanged(mode) ==
    /\ running
    /\ mode # animation_mode
    /\ animation_mode' = mode
    /\ unsaved_changes' = TRUE
    /\ UNCHANGED <<frames, current_index, tree_current, default_duration_ms,
                   spin_default_dur, is_playing, play_timer, wave_direction,
                   current_gif_path, running>>

\* open_settings with the dialog accepted
OpenSettings ==
    /\ running
    /\ unsaved_changes' = TRUE
    /\ UNCHANGED <<frames, current_index, tree_current, default_duration_ms,
                   spin_default_dur, animation_mode, is_playing, play_timer,
                   wave_direction, current_gif_path, running>>

-----------------------------------------------------------------------------
(* Save *)

\* the message boxes of _save_gif_to_path
MsgNoFrames == "No frames to save."
MsgFirstFrame == "Could not load first frame."
MsgNoneLoaded == "No frames could be loaded for saving."
MsgEncodeError == "Error saving GIF"
MsgSaved == "Saved animated GIF"

\* what the environment answers during a save: the path typed in the
\* "Save As" dialog (NoPath: dismissed), whether load_frame_image gives the
\* first frame at its natural size, the 0-based indices of the frames it
\* gives at the canonical size, and whether the encoder succeeds
SaveEnv(dlg_path, first_ok, loaded, enc_ok) ==
    [dlg_path |-> dlg_path, first_ok |-> first_ok, loaded |-> loaded,
     enc_ok |-> enc_ok]

RECURSIVE LoadedFrames(_, _, _)
\* the loop "for f in self.frames" of _save_gif_to_path from 0-based index i
\* on: the frames whose image is not None, in order
LoadedFrames(fr, loaded, i) ==
    IF i >= Len(fr) THEN <<>>
    ELSE (IF i \in loaded THEN <<fr[i + 1]>> ELSE <<>>)
         \o LoadedFrames(fr, loaded, i + 1)

\* _save_gif_to_path without the check of the first frame's natural-size load
SaveGifToPathNoFirstCheck(fr, path, unsaved, e) ==
    LET kept == LoadedFrames(fr, e.loaded, 0)
        none == [save |-> "", path |-> NoPath, images |-> <<>>,
                 durations |-> <<>>, wrote |-> FALSE, unsaved |-> unsaved]
    IN IF fr = <<>> THEN [none EXCEPT !.save = MsgNoFrames]
       ELSE IF kept = <<>> THEN [none EXCEPT !.save = MsgNoneLoaded]
       ELSE LET call == [none EXCEPT
                            !.path = path,
                            !.images = [k \in 1..Len(kept) |-> kept[k].source_path],
                            !.durations = [k \in 1..Len(kept) |-> kept[k].duration_ms]]
            IN IF ~e.enc_ok THEN [call EXCEPT !.save = MsgEncodeError]
               ELSE [call EXCEPT !.save = MsgSaved, !.wrote = TRUE,
                                 !.unsaved = FALSE]

\* _save_gif_to_path with durations.append(f.duration_ms) ahead of the
\* "if img is None: continue": a dropped frame's duration stays in the list
SaveGifToPathAllDurations(fr, path, unsaved, e) ==
    LET kept == LoadedFrames(fr, e.loaded, 0)
        none == [save |-> "", path |-> NoPath, images |-> <<>>,
                 durations |-> <<>>, wrote |-> FALSE, unsaved |-> unsaved]
    IN IF fr = <<>> THEN [none EXCEPT !.save = MsgNoFrames]
       ELSE IF ~e.first_ok THEN [none EXCEPT !.save = MsgFirstFrame]
       ELSE IF kept = <<>> THEN [none EXCEPT !.save = MsgNoneLoaded]
       ELSE LET call == [none EXCEPT
                            !.path = path,
                            !.images = [k \in 1..Len(kept) |-> kept[k].source_path],
                            !.durations = [k \in 1..Len(fr) |-> fr[k].duration_ms]]
            IN IF ~e.enc_ok THEN [call EXCEPT !.save = MsgEncodeError]
               ELSE [call EXCEPT !.save = MsgSaved, !.wrote = TRUE,
                                 !.unsaved = FALSE]

\* _save_gif_to_path: the message box shown, the arguments of the encoder
\* call (empty when it is not reached) and the new unsaved_changes
SaveGifToPath(fr, path, unsaved, e) ==
    LET kept == LoadedFrames(fr, e.loaded, 0)
        none == [save |-> "", path |-> NoPath, images |-> <<>>,
                 durations |-> <<>>, wrote |-> FALSE, unsaved |-> unsaved]
    IN IF fr = <<>> THEN [none EXCEPT !.save = MsgNoFrames]
       ELSE IF ~e.first_ok THEN [none EXCEPT !.save = MsgFirstFrame]
       ELSE IF kept = <<>> THEN [none EXCEPT !.save = MsgNoneLoaded]
       ELSE LET call == [none EXCEPT
                            !.path = path,
                            !.images = [k \in 1..Len(kept) |-> kept[k].source_path],
                            !.durations = [k \in 1..Len(kept) |-> kept[k].duration_ms]]
            IN IF ~e.enc_ok THEN [call EXCEPT !.save = MsgEncodeError]
               ELSE [call EXCEPT !.save = MsgSaved, !.wrote = TRUE,
                                 !.unsaved = FALSE]

\* p.with_suffix(".gif") unless p.suffix.lower() == ".gif"
WithGifSuffix(p) == IF p.suffix # ".gif" THEN [p EXCEPT !.suffix = ".gif"] ELSE p

\* save_gif_as without "self.current_gif_path = p"
SaveGifAsResultKeepsPath(fr, cur_path, unsaved, e) ==
    IF e.dlg_path = NoPath
    THEN [result |-> [save |-> "none", path |-> NoPath, images |-> <<>>,
                      durations |-> <<>>, wrote |-> FALSE, unsaved |-> unsaved],
          gif_path |-> cur_path]
    ELSE [result |-> SaveGifToPath(fr, WithGifSuffix(e.dlg_path), unsaved, e),
          gif_path |-> cur_path]

\* save_gif_as: the result of _save_gif_to_path and the new current_gif_path
SaveGifAsResult(fr, cur_path, unsaved, e) ==
    IF e.dlg_path = NoPath
    THEN [result |-> [save |-> "none", path |-> NoPath, images |-> <<>>,
                      durations |-> <<>>, wrote |-> FALSE, unsaved |-> unsaved],
          gif_path |-> cur_path]
    ELSE LET p == WithGifSuffix(e.dlg_path)
         IN [result |-> SaveGifToPath(fr, p, unsaved, e), gif_path |-> p]

\* save_gif
SaveGifResult(fr, cur_path, unsaved, e) ==
    IF cur_path = NoPath
    THEN SaveGifAsResult(fr, cur_path, unsaved, e)
    ELSE [result |-> SaveGifToPath(fr, cur_path, unsaved, e), gif_path |-> cur_path]

\* the answers of the environment that a save of fr can consult, the typed
\* path being drawn from paths, the set of loaded frames from loadsets and
\* the encoder's success from encs: an answer the code never reads is fixed,
\* so that each run of the code is drawn once
SaveEnvs(fr, ask_path, paths, loadsets, encs) ==
    LET ps == IF ask_path THEN paths ELSE {NoPath}
    IN (IF ask_path THEN {SaveEnv(NoPath, FALSE, {}, FALSE)} ELSE {})
       \cup {SaveEnv(p, FALSE, {}, FALSE) : p \in ps}
       \cup (IF fr = <<>> THEN {}
             ELSE {SaveEnv(p, TRUE, {}, FALSE) : p \in ps, L \in loadsets \cap {{}}}
                  \cup {SaveEnv(p, TRUE, L, b) :
                            p \in ps, L \in loadsets \ {{}}, b \in encs})

\* every set of frames of fr, and the one set that holds them all
AnyLoaded(fr) == SUBSET (0..(Len(fr) - 1))
AllLoaded(fr) == {0..(Len(fr) - 1)}

\* the slot save_gif
SaveGif(e) ==
    /\ running
    /\ LET r == SaveGifResult(frames, current_gif_path, unsaved_changes, e)
       IN /\ unsaved_changes' = r.result.unsaved
          /\ current_gif_path' = r.gif_path
    /\ UNCHANGED <<frames, current_index, tree_current, default_duration_ms,
                   spin_default_dur, animation_mode, is_playing, play_timer,
                   wave_direction, running>>

\* the slot save_gif_as
SaveGifAs(e) ==
    /\ running
    /\ LET r == SaveGifAsResult(frames, current_gif_path, unsaved_changes, e)
       IN /\ unsaved_changes' = r.result.unsaved
          /\ current_gif_path' = r.gif_path
    /\ UNCHANGED <<frames, current_index, tree_current, default_duration_ms,
                   spin_default_dur, animation_mode, is_playing, play_timer,
                   wave_direction, running>>

-----------------------------------------------------------------------------
(* New / Open *)

\* maybe_save_before_discard with "return True" after self.save_gif()
MaybeSaveBeforeDiscardIgnoresSave(fr, cur_path, unsaved, resp, e) ==
    LET asis == [save |-> "none", path |-> NoPath, images |-> <<>>,
                 durations |-> <<>>, wrote |-> FALSE, unsaved |-> unsaved]
    IN IF ~unsaved THEN [proceed |-> TRUE, result |-> asis, gif_path |-> cur_path]
       ELSE IF resp = "Yes"
            THEN LET r == SaveGifResult(fr, cur_path, unsaved, e)
                 IN [proceed |-> TRUE, result |-> r.result, gif_path |-> r.gif_path]
       ELSE IF resp = "No"
            THEN [proceed |-> TRUE, result |-> asis, gif_path |-> cur_path]
       ELSE [proceed |-> FALSE, result |-> asis, gif_path |-> cur_path]

\* maybe_save_before_discard: whether the caller may go on, and what the
\* save it may run leaves; resp is the answer to the question, "none" when
\* the question is not asked
MaybeSaveBeforeDiscard(fr, cur_path, unsaved, resp, e) ==
    LET asis == [save |-> "none", path |-> NoPath, images |-> <<>>,
                 durations |-> <<>>, wrote |-> FALSE, unsaved |-> unsaved]
    IN IF ~unsaved THEN [proceed |-> TRUE, result |-> asis, gif_path |-> cur_path]
       ELSE IF resp = "Yes"
            THEN LET r == SaveGifResult(fr, cur_path, unsaved, e)
                 IN [proceed |-> ~r.result.unsaved, result |-> r.result,
                     gif_path |-> r.gif_path]
       ELSE IF resp = "No"
            THEN [proceed |-> TRUE, result |-> asis, gif_path |-> cur_path]
       ELSE [proceed |-> FALSE, result |-> asis, gif_path |-> cur_path]

\* the answers the "Unsaved Changes" question and the save behind it can get
GuardEnvs(fr, cur_path, unsaved, paths, loadsets, encs) ==
    IF ~unsaved
    THEN {[resp |-> "none", e |-> SaveEnv(NoPath, FALSE, {}, FALSE)]}
    ELSE {[resp |-> r, e |-> SaveEnv(NoPath, FALSE, {}, FALSE)] :
              r \in Responses \ {"Yes"}}
         \cup {[resp |-> "Yes", e |-> e] :
                   e \in SaveEnvs(fr, cur_path = NoPath, paths, loadsets, encs)}

\* new_project
NewProject(g) ==
    /\ running
    /\ \E m \in {MaybeSaveBeforeDiscard(frames, current_gif_path, unsaved_changes,
                                        g.resp, g.e)} :
          IF ~m.proceed
          THEN /\ unsaved_changes' = m.result.unsaved
               /\ current_gif_path' = m.gif_path
               /\ UNCHANGED <<frames, current_index, tree_current>>
          ELSE /\ frames' = <<>>
               /\ current_index' = -1
               /\ current_gif_path' = NoPath
               /\ unsaved_changes' = FALSE
               /\ tree_current' = RebuildTree(<<>>, -1)
    /\ UNCHANGED <<default_duration_ms, spin_default_dur, animation_mode,
                   is_playing, play_timer, wave_direction, running>>

\* the message boxes of open_gif; MsgRaised stands for the traceback of an
\* exception that leaves the slot
MsgOpenError == "Could not open GIF"
MsgRaised == "exception"

\* f"{idx:03d}" for idx < 10
Ordinal3(idx) == "00" \o <<"1", "2", "3", "4", "5", "6", "7", "8", "9">>[idx]

\* disp_name = f"{base_name}_{idx:03d}.png"
ImportName(p, idx) == p.stem \o "_" \o Ordinal3(idx) \o ".png"

\* frame.info.get("duration", self.default_duration_ms)
DeclaredDuration(d, dflt) == IF d = NoDuration THEN dflt ELSE d

\* the decoding loop of open_gif without self.frames.clear() ahead of it
DecodedFramesAppended(p, decl, dflt, count) ==
    frames \o [k \in 1..count |->
                  FrameData(ImportName(p, k), ImportName(p, k),
                            DeclaredDuration(decl[k], dflt), FALSE, FALSE)]

\* the frames the decoding loop of open_gif has appended after count
\* sub-images, decl being the durations the sub-images declare
DecodedFrames(p, decl, dflt, count) ==
    [k \in 1..count |->
        FrameData(ImportName(p, k), ImportName(p, k),
                  DeclaredDuration(decl[k], dflt), FALSE, FALSE)]

\* durations and all(d == durations[0] for d in durations)
Uniform(fr) == fr # <<>> /\ \A k \in 1..Len(fr) : fr[k].duration_ms = fr[1].duration_ms

\* the post-pass of open_gif over the decoded frames: the new default
PostPassDefault(fr, dflt) == IF Uniform(fr) THEN fr[1].duration_ms ELSE dflt

\* the post-pass of open_gif whose second branch leaves is_custom_duration
\* as the decoding loop set it
PostPassFramesUnmarked(fr, dflt) ==
    IF Uniform(fr)
    THEN [k \in 1..Len(fr) |->
             [fr[k] EXCEPT !.duration_ms = fr[1].duration_ms,
                           !.is_custom_duration = FALSE]]
    ELSE fr

\* the post-pass of open_gif over the decoded frames: the frames
PostPassFrames(fr, dflt) ==
    IF Uniform(fr)
    THEN [k \in 1..Len(fr) |->
             [fr[k] EXCEPT !.duration_ms = fr[1].duration_ms,
                           !.is_custom_duration = FALSE]]
    ELSE [k \in 1..Len(fr) |->
             [fr[k] EXCEPT !.is_custom_duration = (fr[k].duration_ms # dflt)]]

\* open_gif with a file picked: g answers maybe_save_before_discard,
\* open_ok tells whether Image.open succeeds, decl holds the durations the
\* sub-images declare, and fail_at is the ordinal of the sub-image whose
\* conversion or save raises (0: none does)
OpenGif(p, g, open_ok, decl, fail_at) ==
    /\ running
    /\ \E m \in {MaybeSaveBeforeDiscard(frames, current_gif_path, unsaved_changes,
                                        g.resp, g.e)} :
          IF ~m.proceed \/ ~open_ok
          THEN /\ unsaved_changes' = m.result.unsaved
               /\ current_gif_path' = m.gif_path
               /\ UNCHANGED <<frames, current_index, tree_current,
                              default_duration_ms, spin_default_dur, is_playing,
                              play_timer, running>>
          ELSE IF fail_at # 0
          THEN \* frames.clear() is done, the loop raises, nothing after it runs
               /\ frames' = DecodedFrames(p, decl, default_duration_ms, fail_at - 1)
               /\ unsaved_changes' = m.result.unsaved
               /\ current_gif_path' = m.gif_path
               /\ running' = FALSE
               /\ UNCHANGED <<current_index, tree_current, default_duration_ms,
                              spin_default_dur, is_playing, play_timer>>
          ELSE LET dec  == DecodedFrames(p, decl, default_duration_ms, Len(decl))
                   dflt == PostPassDefault(dec, default_duration_ms)
                   fr   == PostPassFrames(dec, default_duration_ms)
                   \* self.spin_default_dur.setValue(self.default_duration_ms):
                   \* a changed value runs on_default_duration_changed
                   spin == SpinValue(dflt)
                   fr2  == IF spin # spin_default_dur THEN ApplyDefault(fr, spin) ELSE fr
                   cur  == IF fr2 # <<>> THEN 0 ELSE -1
               IN /\ frames' = fr2
                  /\ default_duration_ms' = IF spin # spin_default_dur THEN spin ELSE dflt
                  /\ spin_default_dur' = spin
                  /\ current_index' = cur
                  /\ current_gif_path' = p
                  /\ unsaved_changes' = FALSE
                  /\ tree_current' = RebuildTree(fr2, cur)
                  /\ IF fr2 # <<>>
                     THEN /\ is_playing' = TRUE
                          /\ play_timer' = StartInterval(fr2, cur, default_duration_ms')
                     ELSE UNCHANGED <<is_playing, play_timer>>
                  /\ UNCHANGED running
    /\ UNCHANGED <<animation_mode, wave_direction>>

-----------------------------------------------------------------------------
(* The GIF file between images[0].save(...) and ImageSequence.Iterator(im)  *)

RECURSIVE WrittenFrames(_, _, _)
\* the frames the GIF encoder writes for images[1..k] with durations in
\* milliseconds: load_frame_image reads a frame's source anew for every
\* frame, so two frames of one source give the same image, and an image
\* identical to the one written before it is not written again, its
\* duration is added to that frame's
WrittenFrames(images, durations, k) ==
    IF k = 0 THEN <<>>
    ELSE LET prev == WrittenFrames(images, durations, k - 1)
         IN IF k > 1 /\ images[k] = images[k - 1]
            THEN [prev EXCEPT ![Len(prev)].duration = @ + durations[k]]
            ELSE Append(prev, [image |-> images[k], duration |-> durations[k]])

\* the delay the file stores for a duration: whole hundredths of a second
GifDelay(ms) == ms \div 10

\* the file written by images[0].save(path, save_all=True, append_images=
\* images[1:], duration=durations, ...): the delay of each frame
GifFile(images, durations) ==
    LET w == WrittenFrames(images, durations, Len(images))
    IN [k \in 1..Len(w) |-> GifDelay(w[k].duration)]

\* frame.info["duration"] of the sub-images of a file: the delay in
\* milliseconds
FileDurations(file) == [k \in 1..Len(file) |-> file[k] * 10]

-----------------------------------------------------------------------------
(* Export of the checked frames *)

\* the message boxes of export_checked
MsgNothingChecked == "No checked frames to export."
\* the folder picked in the "Export Frames To Folder" dialog
ExportDir == [stem |-> "frames", suffix |-> ""]

ExportedMsg(n) ==
    "Exported " \o <<"0", "1", "2", "3", "4">>[n + 1] \o " frame(s) to " \o ExportDir.stem

\* the 0-based indices of the checked frames
CheckedRows(fr) == {i \in 0..(Len(fr) - 1) : fr[i + 1].is_checked}

\* what the environment answers during an export: whether a folder is
\* picked, the indices of the checked frames whose source file exists, and
\* those among them on which Image.open or img.save raises
ExportEnv(dir_ok, exists, bad) == [dir_ok |-> dir_ok, exists |-> exists, bad |-> bad]

\* the answers an export of fr can consult; an answer the code never reads
\* is fixed
ExportEnvs(fr) ==
    {ExportEnv(FALSE, {}, {})}
    \cup UNION {{ExportEnv(TRUE, ex, bad) : bad \in SUBSET ex} :
                   ex \in SUBSET CheckedRows(fr) \ {{}}}
    \cup (IF CheckedRows(fr) = {} THEN {} ELSE {ExportEnv(TRUE, {}, {})})

\* the file name export_checked writes a frame to: the display names here
\* all carry a suffix
ExportName(f) == f.display_name

RECURSIVE ExportLoop(_, _, _)
\* the loop "for f in checked" of export_checked from 0-based index i on: the
\* files written, and whether an exception ended the loop
ExportLoop(fr, e, i) ==
    IF i >= Len(fr) THEN [written |-> <<>>, raised |-> FALSE]
    ELSE IF ~fr[i + 1].is_checked \/ i \notin e.exists THEN ExportLoop(fr, e, i + 1)
    ELSE IF i \in e.bad THEN [written |-> <<>>, raised |-> TRUE]
    ELSE LET r == ExportLoop(fr, e, i + 1)
         IN [written |-> <<ExportName(fr[i + 1])>> \o r.written, raised |-> r.raised]

\* export_checked: the message box shown, the folder picked (NoPath: the
\* dialog is not reached or is dismissed), the files written and whether an
\* exception left the slot
ExportCheckedResult(fr, e) ==
    IF CheckedRows(fr) = {}
    THEN [message |-> MsgNothingChecked, dir |-> NoPath, written |-> <<>>,
          raised |-> FALSE]
    ELSE IF ~e.dir_ok
    THEN [message |-> "", dir |-> NoPath, written |-> <<>>, raised |-> FALSE]
    ELSE LET r == ExportLoop(fr, e, 0)
         IN [message |-> IF r.raised THEN MsgRaised
                         ELSE ExportedMsg(Cardinality(CheckedRows(fr))),
             dir |-> ExportDir, written |-> r.written, raised |-> r.raised]

\* the slot export_checked
ExportChecked(e) ==
    /\ running
    /\ running' = ~ExportCheckedResult(frames, e).raised
    /\ UNCHANGED <<frames, current_index, tree_current, default_duration_ms,
                   spin_default_dur, animation_mode, is_playing, play_timer,
                   wave_direction, unsaved_changes, current_gif_path>>

-----------------------------------------------------------------------------
(* What the slots show and write *)

\* a save: r is the result of SaveGifResult or SaveGifAsResult under answers e
SaveShown(handler, resp, r, e) ==
    [NoOut EXCEPT !.handler = handler, !.resp = resp, !.save = r.result.save,
                  !.first_ok = e.first_ok, !.loaded = e.loaded,
                  !.path = r.result.path, !.images = r.result.images,
                  !.durations = r.result.durations, !.wrote = r.result.wrote]

SaveGifShown(e) ==
    SaveShown("save_gif", "none",
              SaveGifResult(frames, current_gif_path, unsaved_changes, e), e)

SaveGifAsShown(e) ==
    SaveShown("save_gif_as", "none",
              SaveGifAsResult(frames, current_gif_path, unsaved_changes, e), e)

NewProjectShown(g) ==
    SaveShown("new_project", g.resp,
              MaybeSaveBeforeDiscard(frames, current_gif_path, unsaved_changes,
                                     g.resp, g.e), g.e)

OpenGifShown(g, open_ok, fail_at) ==
    LET m == MaybeSaveBeforeDiscard(frames, current_gif_path, unsaved_changes,
                                    g.resp, g.e)
    IN [SaveShown("open_gif", g.resp, m, g.e) EXCEPT
           !.message = IF ~m.proceed THEN ""
                       ELSE IF ~open_ok THEN MsgOpenError
                       ELSE IF fail_at # 0 THEN MsgRaised
                       ELSE ""]

\* export_checked: loaded holds the checked frames whose source can be read
ExportCheckedShown(e) ==
    LET r == ExportCheckedResult(frames, e)
    IN [NoOut EXCEPT !.handler = "export_checked", !.message = r.message,
                     !.loaded = e.exists \ e.bad, !.path = r.dir,
                     !.images = r.written, !.wrote = (r.written # <<>>)]

-----------------------------------------------------------------------------
(* The program *)

Init ==
    /\ frames = <<>>
    /\ current_index = -1
    /\ tree_current = -1
    /\ default_duration_ms = InitialDefaultMs
    /\ spin_default_dur = InitialDefaultMs
    /\ animation_mode = "loop"
    /\ is_playing = FALSE
    /\ play_timer = 0
    /\ wave_direction = 1
    /\ unsaved_changes = FALSE
    /\ current_gif_path = NoPath
    /\ running = TRUE
    /\ out = NoOut
    /\ n_added = 0
    /\ n_removed = 0
    /\ n_duplicated = 0

\* the rows of the tree
Rows == 0..(Len(frames) - 1)

\* the answers the "Unsaved Changes" question can get when every load and
\* the encoder succeed once the first frame has loaded
PlainGuardEnvs ==
    GuardEnvs(frames, current_gif_path, unsaved_changes,
              {[stem |-> "out", suffix |-> ""]}, AllLoaded(frames), {TRUE})

\* the durations the sub-images of an opened file can declare
Declarations == UNION {[1..n -> GifDurations \cup {NoDuration}] : n \in 1..MaxFrames}

\* the outcomes of decoding an opened file: the declared durations and the
\* ordinal of the sub-image that raises (0: none); what the raising
\* sub-image and those after it declare is never used
Decodings ==
    {<<decl, 0>> : decl \in Declarations}
    \cup {<<<<NoDuration>>, 1>>}
    \cup {<<decl \o <<NoDuration>>, Len(decl) + 1>> :
              decl \in {d \in Declarations : Len(d) < MaxFrames}}

\* open_gif under every answer in guards and every outcome in decodings
OpenAny(guards, decodings) ==
    \E g \in guards :
        \/ OpenGif(OpenPath, g, FALSE, <<NoDuration>>, 0)
        \/ \E d \in decodings : OpenGif(OpenPath, g, TRUE, d[1], d[2])

Add ==
    /\ \E files \in FileChoices({"a.png"}, 1..(MaxFrames - Len(frames))) :
          AddImages(files)
    /\ UNCHANGED <<out, counters>>

Remove == RemoveSelected /\ UNCHANGED <<out, counters>>

Duplicate ==
    /\ Len(frames) < MaxFrames
    /\ tree_current \in Rows => Copies(frames[tree_current + 1]) < MaxCopies
    /\ DuplicateSelected
    /\ UNCHANGED <<out, counters>>

Up == MoveUp /\ UNCHANGED <<out, counters>>

Down == MoveDown /\ UNCHANGED <<out, counters>>

Select == (\E idx \in Rows : SelectRow(idx)) /\ UNCHANGED <<out, counters>>

Check == (\E idx \in Rows : ToggleChecked(idx)) /\ UNCHANGED <<out, counters>>

EditDuration ==
    /\ \E idx \in Rows :
          \/ \E typed \in TypedDurations : EditDurationForFrame(idx, typed, TRUE)
          \/ EditDurationForFrame(idx, 0, FALSE)
    /\ UNCHANGED <<out, counters>>

SetDefault ==
    /\ \E typed \in TypedDurations : OnDefaultDurationChanged(typed)
    /\ UNCHANGED <<out, counters>>

Overwrite == OnOverwriteAllClicked /\ UNCHANGED <<out, counters>>

SetMode == (\E mode \in Modes : OnModeChanged(mode)) /\ UNCHANGED <<out, counters>>

Settings == OpenSettings /\ UNCHANGED <<out, counters>>

Tick == AdvanceFrameForPlayback /\ UNCHANGED <<out, counters>>

PlayPause == TogglePlayPause /\ UNCHANGED <<out, counters>>

Prev == PrevFrameClicked /\ UNCHANGED <<out, counters>>

Forward == NextFrameClicked /\ UNCHANGED <<out, counters>>

Save ==
    /\ \E e \in SaveEnvs(frames, current_gif_path = NoPath,
                         {[stem |-> "out", suffix |-> ""]}, AllLoaded(frames), {TRUE}) :
          SaveGif(e)
    /\ UNCHANGED <<out, counters>>

SaveAs ==
    /\ \E e \in SaveEnvs(frames, TRUE, {[stem |-> "out", suffix |-> ""]},
                         AllLoaded(frames), {TRUE}) :
          SaveGifAs(e)
    /\ UNCHANGED <<out, counters>>

New == (\E g \in PlainGuardEnvs : NewProject(g)) /\ UNCHANGED <<out, counters>>

Open == OpenAny(PlainGuardEnvs, Decodings) /\ UNCHANGED <<out, counters>>

Export == (\E e \in ExportEnvs(frames) : ExportChecked(e)) /\ UNCHANGED <<out, counters>>

Next ==
    \/ Add \/ Remove \/ Duplicate \/ Up \/ Down \/ Select \/ Check
    \/ EditDuration \/ SetDefault \/ Overwrite \/ SetMode \/ Settings
    \/ Tick \/ PlayPause \/ Prev \/ Forward
    \/ Save \/ SaveAs \/ New \/ Open \/ Export

\* the whole program, every slot taken in any order
Spec == Init /\ [][Next]_vars

-----------------------------------------------------------------------------
(* Saving, with everything the save shows and writes on record: the loader *)
(* may fail on any frame and the encoder on any call                       *)

ExportAdd ==
    /\ \E files \in FileChoices(AddFiles, 1..(MaxFrames - Len(frames))) :
          AddImages(files)
    /\ out' = NoOut
    /\ UNCHANGED counters

ExportCheck ==
    /\ \E idx \in Rows : ToggleChecked(idx)
    /\ out' = NoOut
    /\ UNCHANGED counters

ExportEditDuration ==
    /\ \E idx \in Rows, typed \in TypedDurations : EditDurationForFrame(idx, typed, TRUE)
    /\ out' = NoOut
    /\ UNCHANGED counters

ExportSave ==
    /\ \E e \in SaveEnvs(frames, current_gif_path = NoPath, SavePaths,
                         AnyLoaded(frames), BOOLEAN) :
          SaveGif(e) /\ out' = SaveGifShown(e)
    /\ UNCHANGED counters

ExportSaveAs ==
    /\ \E e \in SaveEnvs(frames, TRUE, SavePaths, AnyLoaded(frames), BOOLEAN) :
          SaveGifAs(e) /\ out' = SaveGifAsShown(e)
    /\ UNCHANGED counters

NextExport ==
    \/ ExportAdd \/ ExportCheck \/ ExportEditDuration \/ ExportSave \/ ExportSaveAs

SpecExport == Init /\ [][NextExport]_vars

-----------------------------------------------------------------------------
(* New project and open, with what they show on record: the save behind   *)
(* the "Unsaved Changes" question may be dismissed or fail at any step     *)

ProjectGuardEnvs ==
    GuardEnvs(frames, current_gif_path, unsaved_changes,
              {[stem |-> "out", suffix |-> ""]}, {{}} \cup AllLoaded(frames), BOOLEAN)

ProjectAdd ==
    /\ \E files \in FileChoices({"a.png"}, 1..(MaxFrames - Len(frames))) :
          AddImages(files)
    /\ out' = NoOut
    /\ UNCHANGED counters

ProjectRemove == RemoveSelected /\ out' = NoOut /\ UNCHANGED counters

ProjectTick == AdvanceFrameForPlayback /\ out' = NoOut /\ UNCHANGED counters

ProjectNew ==
    /\ \E g \in ProjectGuardEnvs : NewProject(g) /\ out' = NewProjectShown(g)
    /\ UNCHANGED counters

ProjectOpen ==
    /\ \E g \in ProjectGuardEnvs :
          \/ /\ OpenGif(OpenPath, g, FALSE, <<NoDuration>>, 0)
             /\ out' = OpenGifShown(g, FALSE, 0)
          \/ \E d \in Decodings :
                /\ OpenGif(OpenPath, g, TRUE, d[1], d[2])
                /\ out' = OpenGifShown(g, TRUE, d[2])
    /\ UNCHANGED counters

NextProject ==
    \/ ProjectAdd \/ ProjectRemove \/ ProjectTick \/ ProjectNew \/ ProjectOpen

SpecProject == Init /\ [][NextProject]_vars

-----------------------------------------------------------------------------
(* List editing from the empty timeline, counting what each slot did *)

EditAdd ==
    /\ n_added < MaxAdds
    /\ \E files \in FileChoices({"a.png"}, 1..Min(MaxEditFrames - Len(frames),
                                                 MaxAdds - n_added)) :
          /\ AddImages(files)
          /\ n_added' = n_added + Len(files)
    /\ UNCHANGED <<out, n_removed, n_duplicated>>

EditRemove ==
    /\ RemoveSelected
    /\ n_removed' = n_removed + (IF tree_current \in Rows THEN 1 ELSE 0)
    /\ UNCHANGED <<out, n_added, n_duplicated>>

EditDuplicate ==
    /\ Len(frames) < MaxEditFrames
    /\ n_duplicated < MaxDuplicates
    /\ tree_current \in Rows => Copies(frames[tree_current + 1]) < MaxCopies
    /\ DuplicateSelected
    /\ n_duplicated' = n_duplicated + (IF tree_current \in Rows THEN 1 ELSE 0)
    /\ UNCHANGED <<out, n_added, n_removed>>

NextEdit ==
    \/ EditAdd \/ EditRemove \/ EditDuplicate \/ Up \/ Down
    \/ Select \/ Tick

SpecEdit == Init /\ [][NextEdit]_vars

-----------------------------------------------------------------------------
(* Playback over timelines of up to MaxPlayFrames frames *)

PlayAdd ==
    /\ \E files \in FileChoices({"a.png"}, 1..(MaxPlayFrames - Len(frames))) :
          AddImages(files)
    /\ UNCHANGED <<out, counters>>

NextPlay ==
    \/ PlayAdd \/ Remove \/ Select \/ SetMode
    \/ Tick \/ PlayPause \/ Prev \/ Forward

SpecPlay == Init /\ [][NextPlay]_vars

-----------------------------------------------------------------------------
(* Playback over imported timelines, whose frames declare their own         *)
(* durations; a save behind the "Unsaved Changes" question never succeeds   *)

TimingGuardEnvs ==
    GuardEnvs(frames, current_gif_path, unsaved_changes, {}, {}, {})

TimingOpen ==
    /\ \E g \in TimingGuardEnvs, d \in Decodings : OpenGif(OpenPath, g, TRUE, d[1], d[2])
    /\ UNCHANGED <<out, counters>>

NextTiming ==
    \/ TimingOpen \/ SetMode \/ Tick \/ PlayPause \/ Prev

SpecTiming == Init /\ [][NextTiming]_vars

-----------------------------------------------------------------------------
(* Durations: frames are added, checked and given durations of their own,   *)
(* and the default duration is changed; the slot that ran last is on record *)

\* numbers typed into the duration dialog and into the default-duration box
DurationInputs == TypedDurations \cup {50}

DurationsAdd ==
    /\ \E files \in FileChoices(AddFiles, 1..(MaxFrames - Len(frames))) :
          AddImages(files)
    /\ out' = [NoOut EXCEPT !.handler = "add_images"]
    /\ UNCHANGED counters

DurationsEdit ==
    /\ \E idx \in Rows, typed \in DurationInputs : EditDurationForFrame(idx, typed, TRUE)
    /\ out' = NoOut
    /\ UNCHANGED counters

DurationsSetDefault ==
    /\ \E typed \in DurationInputs : OnDefaultDurationChanged(typed)
    /\ out' = [NoOut EXCEPT !.handler = "on_default_duration_changed"]
    /\ UNCHANGED counters

DurationsOverwrite == OnOverwriteAllClicked /\ out' = NoOut /\ UNCHANGED counters

NextDurations ==
    \/ DurationsAdd \/ ExportCheck \/ DurationsEdit \/ DurationsSetDefault
    \/ DurationsOverwrite

SpecDurations == Init /\ [][NextDurations]_vars

-----------------------------------------------------------------------------
(* Copies: frames of two files are added, given durations of their own,     *)
(* selected and duplicated                                                  *)

CopyAdd ==
    /\ \E files \in FileChoices(AddFiles, 1..(MaxEditFrames - Len(frames))) :
          AddImages(files)
    /\ out' = NoOut
    /\ UNCHANGED counters

CopySelect == (\E idx \in Rows : SelectRow(idx)) /\ out' = NoOut /\ UNCHANGED counters

CopyDuplicate ==
    /\ Len(frames) < MaxEditFrames
    /\ tree_current \in Rows => Copies(frames[tree_current + 1]) < MaxCopies
    /\ DuplicateSelected
    /\ out' = [NoOut EXCEPT !.handler = "duplicate_selected"]
    /\ UNCHANGED counters

NextCopy == CopyAdd \/ ExportEditDuration \/ CopySelect \/ CopyDuplicate

SpecCopy == Init /\ [][NextCopy]_vars

-----------------------------------------------------------------------------
(* Frame export: frames of two files are added, checked and exported, with  *)
(* what the export shows and writes on record                               *)

FramesExport ==
    /\ \E e \in ExportEnvs(frames) : ExportChecked(e) /\ out' = ExportCheckedShown(e)
    /\ UNCHANGED counters

NextFrames == ExportAdd \/ ExportCheck \/ FramesExport

SpecFrames == Init /\ [][NextFrames]_vars

-----------------------------------------------------------------------------
(* Round trip: a timeline is saved to g.gif and that file is opened; the    *)
(* loader may fail on any frame, the encoder succeeds                       *)

RoundDurations == {55, 100, 105}

RoundEditDuration ==
    /\ \E idx \in Rows, typed \in RoundDurations : EditDurationForFrame(idx, typed, TRUE)
    /\ out' = NoOut
    /\ UNCHANGED counters

RoundSaveAs ==
    /\ \E e \in SaveEnvs(frames, TRUE, {OpenPath}, AnyLoaded(frames), {TRUE}) :
          SaveGifAs(e) /\ out' = SaveGifAsShown(e)
    /\ UNCHANGED counters

\* the file the last save wrote is opened
RoundOpen ==
    /\ out.wrote /\ out.path = OpenPath
    /\ \E g \in GuardEnvs(frames, current_gif_path, unsaved_changes, {}, {}, {}) :
          /\ OpenGif(OpenPath, g, TRUE,
                     FileDurations(GifFile(out.images, out.durations)), 0)
          /\ out' = OpenGifShown(g, TRUE, 0)
    /\ UNCHANGED counters

NextRound == ExportAdd \/ RoundEditDuration \/ RoundSaveAs \/ RoundOpen

SpecRound == Init /\ [][NextRound]_vars

-----------------------------------------------------------------------------
(* Durations of their own and the default: every slot that writes a         *)
(* duration, the default or is_custom_duration, over added and imported     *)
(* frames                                                                   *)

NextCustom == Add \/ Duplicate \/ EditDuration \/ SetDefault \/ Overwrite \/ Open

SpecCustom == Init /\ [][NextCustom]_vars

-----------------------------------------------------------------------------
(* The timeline emptied under a running timer: frames are added at          *)
(* different defaults, removed, and discarded by a new project, playback    *)
(* is toggled and the timer ticks; the slot that ran last is on record      *)

EmptiedAdd ==
    /\ \E files \in FileChoices({"a.png"}, 1..(MaxFrames - Len(frames))) :
          AddImages(files)
    /\ out' = [NoOut EXCEPT !.handler = "add_images"]
    /\ UNCHANGED counters

EmptiedRemove ==
    /\ RemoveSelected
    /\ out' = [NoOut EXCEPT !.handler = "remove_selected"]
    /\ UNCHANGED counters

EmptiedNew ==
    /\ \E g \in PlainGuardEnvs : NewProject(g) /\ out' = NewProjectShown(g)
    /\ UNCHANGED counters

EmptiedSetDefault ==
    /\ \E typed \in TypedDurations : OnDefaultDurationChanged(typed)
    /\ out' = [NoOut EXCEPT !.handler = "on_default_duration_changed"]
    /\ UNCHANGED counters

EmptiedPlayPause ==
    /\ TogglePlayPause
    /\ out' = [NoOut EXCEPT !.handler = "toggle_play_pause"]
    /\ UNCHANGED counters

EmptiedTick ==
    /\ AdvanceFrameForPlayback
    /\ out' = [NoOut EXCEPT !.handler = "advance_frame_for_playback"]
    /\ UNCHANGED counters

NextEmptied ==
    \/ EmptiedAdd \/ EmptiedRemove \/ EmptiedNew \/ EmptiedSetDefault
    \/ EmptiedPlayPause \/ EmptiedTick

SpecEmptied == Init /\ [][NextEmptied]_vars

-----------------------------------------------------------------------------
(* The unsaved-changes flag: every slot of the window that reads or writes *)
(* it or that the timeline is edited, played or replaced by; dialogs may be *)
(* dismissed, and a save may fail on the first frame or in the encoder      *)

UnsavedSaveEnvs(ask_path) ==
    SaveEnvs(frames, ask_path, {OpenPath}, AllLoaded(frames), BOOLEAN)

UnsavedGuardEnvs ==
    GuardEnvs(frames, current_gif_path, unsaved_changes, {OpenPath},
              AllLoaded(frames), {TRUE})

\* a file of one sub-image and a file whose first sub-image cannot be
\* converted
UnsavedDecodings == {<<<<NoDuration>>, 0>>, <<<<NoDuration>>, 1>>}

\* the row clicked and the duration typed
UnsavedRows == Rows \cap {0}
UnsavedDurations == {0}

UnsavedCheck ==
    /\ \E idx \in UnsavedRows : ToggleChecked(idx)
    /\ UNCHANGED out
    /\ UNCHANGED counters

UnsavedEditDuration ==
    /\ \E idx \in UnsavedRows :
          \/ /\ \E typed \in UnsavedDurations : EditDurationForFrame(idx, typed, TRUE)
             /\ UNCHANGED out
          \/ /\ EditDurationForFrame(idx, 0, FALSE)
             /\ UNCHANGED out
    /\ UNCHANGED counters

UnsavedSetDefault ==
    /\ \E typed \in UnsavedDurations : OnDefaultDurationChanged(typed)
    /\ UNCHANGED out
    /\ UNCHANGED counters

UnsavedSave ==
    /\ \E e \in UnsavedSaveEnvs(current_gif_path = NoPath) :
          SaveGif(e) /\ UNCHANGED out
    /\ UNCHANGED counters

UnsavedSaveAs ==
    /\ \E e \in UnsavedSaveEnvs(TRUE) : SaveGifAs(e) /\ UNCHANGED out
    /\ UNCHANGED counters

UnsavedNew ==
    /\ \E g \in UnsavedGuardEnvs : NewProject(g) /\ UNCHANGED out
    /\ UNCHANGED counters

UnsavedOpen ==
    /\ \E g \in UnsavedGuardEnvs :
          \/ /\ OpenGif(OpenPath, g, FALSE, <<NoDuration>>, 0)
             /\ UNCHANGED out
          \/ \E d \in UnsavedDecodings :
                /\ OpenGif(OpenPath, g, TRUE, d[1], d[2])
                /\ UNCHANGED out
    /\ UNCHANGED counters

NextUnsaved ==
    \/ Add \/ Remove \/ Duplicate \/ Up \/ Down
    \/ UnsavedCheck \/ UnsavedEditDuration \/ UnsavedSetDefault \/ Overwrite
    \/ SetMode \/ Tick \/ PlayPause \/ Prev
    \/ Forward \/ UnsavedSave \/ UnsavedSaveAs \/ UnsavedNew \/ UnsavedOpen

SpecUnsaved == Init /\ [][NextUnsaved]_vars

-----------------------------------------------------------------------------
(* Properties *)

SaveSlots == {"save_gif", "save_gif_as"}
DiscardSlots == {"new_project", "open_gif"}
SaveFailures == {MsgNoFrames, MsgFirstFrame, MsgNoneLoaded, MsgEncodeError}

\* C1: the cursor is an index of the timeline whenever the timeline is not
\* empty, and it is -1 exactly when the timeline is empty, after any
\* operation, an import that fails included
C1_CursorValid ==
    /\ (frames = <<>>) <=> (current_index = -1)
    /\ frames # <<>> => current_index \in 0..(Len(frames) - 1)

\* C2 as stated: from the empty timeline, the length of the timeline is the
\* number of frames added minus the number of frames removed
C2_LengthIsAddsMinusRemoves == Len(frames) = n_added - n_removed

\* C2, corrected: from the empty timeline, the length of the timeline is the
\* number of frames added plus the number of frames duplicated minus the
\* number of frames removed; moves change none of the four
C2_LengthCountsDuplicates == Len(frames) = n_added + n_duplicated - n_removed

C2_Witness ==
    /\ n_added > 0 /\ n_duplicated > 0 /\ n_removed > 0
    /\ Len(frames) >= 2
    /\ Copies(frames[1]) # Copies(frames[2])

\* C3: while the program runs, every frame's duration_ms lies in
\* [10, 60000], whatever the durations an imported file declares
C3_DurationsInRange ==
    running => \A k \in 1..Len(frames) :
                   frames[k].duration_ms \in MinDurationMs..MaxDurationMs

\* C4: a Save or Save As that ends with one of the four failure messages
\* leaves the frame list, the cursor, the unsaved-changes flag and the save
\* location as they were
C4_FailedSaveChangesNothing ==
    [][out'.handler \in SaveSlots /\ out'.save \in SaveFailures
       => UNCHANGED <<frames, current_index, unsaved_changes, current_gif_path>>]_vars

\* C5: an import that fails, at open time or while a sub-image is decoded,
\* leaves the frame list, the cursor, the default duration, the unsaved flag
\* and the save location as they were (imports whose "Unsaved Changes"
\* question is answered Yes are left out: the save behind that answer changes
\* the flag and the location before the import starts)
C5_FailedImportChangesNothing ==
    [][/\ out'.handler = "open_gif"
       /\ out'.resp # "Yes"
       /\ out'.message \in {MsgOpenError, MsgRaised}
       => UNCHANGED <<frames, current_index, default_duration_ms,
                      unsaved_changes, current_gif_path>>]_vars

\* C6: a save of an empty timeline reports "No frames to save."; a save whose
\* natural-size load of the first frame fails reports "Could not load first
\* frame."; a save whose first frame loads but none loads at the canonical
\* size reports "No frames could be loaded for saving."; in each case the
\* encoder is not called and no file is written
C6_PreconditionFailuresWriteNothing ==
    out.handler \in SaveSlots /\ out.save # "none" =>
        LET silent == ~out.wrote /\ out.path = NoPath /\ out.images = <<>>
        IN /\ frames = <<>> => out.save = MsgNoFrames /\ silent
           /\ frames # <<>> /\ ~out.first_ok => out.save = MsgFirstFrame /\ silent
           /\ frames # <<>> /\ out.first_ok /\ out.loaded = {}
                  => out.save = MsgNoneLoaded /\ silent

C6_Witness ==
    /\ out.handler \in SaveSlots
    /\ out.save = MsgNoneLoaded
    /\ out.first_ok
    /\ Len(frames) = 2

\* C7: a Save or Save As that succeeds leaves the path it wrote as the save
\* location and the unsaved-changes flag false, and changes neither the frame
\* list nor the cursor
C7_SuccessfulSaveSetsLocation ==
    [][out'.handler \in SaveSlots /\ out'.save = MsgSaved
       => /\ out'.wrote
          /\ current_gif_path' = out'.path
          /\ ~unsaved_changes'
          /\ frames' = frames
          /\ current_index' = current_index]_vars

C7_Witness ==
    /\ out.handler = "save_gif_as"
    /\ out.save = MsgSaved
    /\ current_gif_path = [stem |-> "out", suffix |-> ".gif"]
    /\ ~unsaved_changes
    /\ frames # <<>>

\* the k-th smallest element of a set of indices
KthLoaded(S, k) == CHOOSE i \in S : Cardinality({j \in S : j < i}) = k - 1

\* C8: the encoder is given exactly the frames that loaded at the canonical
\* size, in timeline order, checked or not: the image list and the duration
\* list have the length of that set, and their k-th entries are the image and
\* the duration_ms of the k-th loaded frame
C8_EncodesLoadedFramesInOrder ==
    out.handler \in SaveSlots /\ out.save \in {MsgSaved, MsgEncodeError} =>
        /\ out.loaded \subseteq Rows
        /\ Len(out.images) = Cardinality(out.loaded)
        /\ Len(out.durations) = Len(out.images)
        /\ \A k \in 1..Len(out.images) :
              LET f == frames[KthLoaded(out.loaded, k) + 1]
              IN /\ out.images[k] = f.source_path
                 /\ out.durations[k] = f.duration_ms

C8_Witness ==
    /\ out.handler \in SaveSlots
    /\ out.save = MsgSaved
    /\ Len(frames) = 2
    /\ out.loaded = {1}
    /\ frames[1].is_checked /\ ~frames[2].is_checked
    /\ frames[1].duration_ms # frames[2].duration_ms
    /\ out.durations = <<frames[2].duration_ms>>

\* C9: new project and import leave the frame list and the cursor as they
\* were unless the guard passes, that is unless the unsaved flag is false, or
\* the answer is No, or the answer is Yes and the save succeeds
C9_GuardedDiscard ==
    [][/\ out'.handler \in DiscardSlots
       /\ ~(\/ ~unsaved_changes
            \/ out'.resp = "No"
            \/ out'.resp = "Yes" /\ out'.save = MsgSaved)
       => frames' = frames /\ current_index' = current_index]_vars

C9_Witness ==
    /\ out.handler \in DiscardSlots
    /\ out.resp = "Yes"
    /\ out.save = MsgNoneLoaded
    /\ unsaved_changes
    /\ Len(frames) = 2

\* C10: a tick in wave mode on n >= 2 frames moves the cursor by exactly one
\* position, in the direction wave_direction has after the tick; that
\* direction is +1 when the tick starts at index 0, -1 when it starts at
\* index n-1, and otherwise the direction before the tick (so that 3 frames
\* are visited 0,1,2,1,0,1,2,...); on a single frame the cursor stays at 0.
\* The first conjunct says of every state what the next tick returns, so
\* that a tick that would leave the cursor where it is cannot go unnoticed;
\* the second says it of every tick taken.
C10_WavePingPong ==
    /\ [](animation_mode = "wave" /\ frames # <<>> =>
            LET n   == Len(frames)
                nxt == NextIndexForMode(n, current_index, animation_mode,
                                        wave_direction)
            IN IF n = 1 THEN nxt = 0
               ELSE nxt \in 0..(n - 1) /\ nxt - current_index \in {-1, 1})
    /\ [][AdvanceFrameForPlayback /\ animation_mode = "wave" /\ frames # <<>>
          => LET n == Len(frames)
             IN IF n = 1 THEN current_index' = 0
                ELSE /\ wave_direction' = IF current_index = 0 THEN 1
                                          ELSE IF current_index = n - 1 THEN -1
                                          ELSE wave_direction
                     /\ wave_direction' \in {-1, 1}
                     /\ current_index' = current_index + wave_direction'
                     /\ current_index' \in 0..(n - 1)]_vars

C10_Witness ==
    /\ animation_mode = "wave"
    /\ Len(frames) = 3
    /\ current_index = 1
    /\ wave_direction = -1
    /\ play_timer # 0

\* C11: a tick in loop mode on n frames sets the cursor to (i + 1) mod n, so
\* that 3 frames are visited 0,1,2,0,1,2,..., and leaves wave_direction as it
\* was. The first conjunct says of every state what the next tick returns,
\* the second says it of every tick taken.
C11_LoopWraps ==
    /\ [](animation_mode = "loop" /\ frames # <<>> =>
            LET n == Len(frames)
            IN /\ NextIndexForMode(n, current_index, animation_mode, wave_direction)
                      = (IF current_index = n - 1 THEN 0 ELSE current_index + 1)
               /\ NextWaveDirection(n, current_index, animation_mode, wave_direction)
                      = wave_direction)
    /\ [][AdvanceFrameForPlayback /\ animation_mode = "loop" /\ frames # <<>>
          => /\ current_index' = (IF current_index = Len(frames) - 1 THEN 0
                                  ELSE current_index + 1)
             /\ wave_direction' = wave_direction]_vars

C11_Witness ==
    /\ animation_mode = "loop"
    /\ Len(frames) = 3
    /\ current_index = 0
    /\ wave_direction = -1
    /\ play_timer # 0

\* C13: a tick is pending exactly when is_playing is set; a start on an empty
\* timeline changes neither; a stop leaves is_playing unset and no tick
\* pending; and playback advances the cursor only while a tick is pending,
\* which after a stop takes a start (toggle_play_pause, add_images)
C13_StartStop ==
    /\ [](is_playing <=> play_timer # 0)
    /\ [][TogglePlayPause /\ ~is_playing /\ frames = <<>>
          => UNCHANGED <<is_playing, play_timer>>]_vars
    /\ [][TogglePlayPause /\ is_playing => ~is_playing' /\ play_timer' = 0]_vars
    /\ [][AdvanceFrameForPlayback => is_playing /\ play_timer # 0]_vars
    /\ [][play_timer = 0 /\ play_timer' # 0
          => /\ frames' # <<>>
             /\ TogglePlayPause \/ (\E files \in FileChoices({"a.png"}, 1..MaxPlayFrames) :
                                        AddImages(files))]_vars

C13_Witness ==
    /\ ~is_playing
    /\ play_timer = 0
    /\ Len(frames) = 3
    /\ current_index = 1
    /\ animation_mode = "loop"
    /\ wave_direction = -1

Floor10(d) == IF d < 10 THEN 10 ELSE d

\* C12: a tick on a non-empty timeline schedules the next tick after
\* max(10, duration_ms) of the frame at the cursor it has just set, never
\* after less than 10 ms; a start (the timer goes from stopped to pending,
\* by toggle_play_pause or by an import) schedules the first tick after
\* max(10, duration_ms) of the frame at the cursor
C12_TickDelay ==
    /\ [][AdvanceFrameForPlayback /\ frames # <<>>
          => /\ play_timer' = Floor10(frames[current_index' + 1].duration_ms)
             /\ play_timer' >= 10]_vars
    /\ [][TogglePlayPause /\ ~is_playing /\ frames # <<>>
          => /\ is_playing'
             /\ play_timer' = Floor10(frames[current_index + 1].duration_ms)]_vars
    /\ [][running' /\ play_timer = 0 /\ play_timer' # 0
          => play_timer' = Floor10(frames'[current_index' + 1].duration_ms)]_vars

C12_Witness ==
    /\ Len(frames) = 2
    /\ current_index = 1
    /\ frames[1].duration_ms = 40
    /\ frames[2].duration_ms = 5
    /\ play_timer = 10
    /\ is_playing

\* C15: a tick, a start and a stop leave the frame list, default_duration_ms,
\* animation_mode, the unsaved-changes flag and the save location as they were
C15_PlaybackFrame ==
    [][AdvanceFrameForPlayback \/ TogglePlayPause
       => UNCHANGED <<frames, default_duration_ms, animation_mode,
                      unsaved_changes, current_gif_path>>]_vars

C15_Witness ==
    /\ ~unsaved_changes
    /\ current_gif_path = OpenPath
    /\ Len(frames) = 2
    /\ frames[2].is_custom_duration
    /\ current_index = 1
    /\ play_timer # 0

\* C16: a remove with no valid row selected changes nothing; otherwise it
\* deletes exactly the selected frame, the others keeping their order and
\* fields, and sets the cursor to the cursor it had before, clamped to the
\* new length, or to -1 when the timeline is now empty
C16_RemoveClampsOldCursor ==
    [][RemoveSelected
       => IF tree_current \notin Rows
          THEN UNCHANGED <<frames, current_index>>
          ELSE /\ Len(frames') = Len(frames) - 1
               /\ \A k \in 1..Len(frames') :
                     frames'[k] = frames[IF k <= tree_current THEN k ELSE k + 1]
               /\ current_index' =
                     IF frames' = <<>> THEN -1
                     ELSE IF current_index < 0 THEN 0
                     ELSE IF current_index > Len(frames') - 1 THEN Len(frames') - 1
                     ELSE current_index]_vars

\* C17: a change of the default duration to ms sets default_duration_ms to
\* ms and the duration_ms of every frame that is not pinned to ms, leaves
\* every pinned frame as it is, duration and flag, and changes neither the
\* order, the length, the checked flags nor the cursor
C17_SetDefaultDuration ==
    [][(\E typed \in DurationInputs : OnDefaultDurationChanged(typed))
       => LET ms == spin_default_dur'
          IN /\ default_duration_ms' = ms
             /\ Len(frames') = Len(frames)
             /\ \A k \in 1..Len(frames) :
                   frames'[k] = IF frames[k].is_custom_duration THEN frames[k]
                                ELSE [frames[k] EXCEPT !.duration_ms = ms]
             /\ current_index' = current_index]_vars

C17_Witness ==
    /\ out.handler = "on_default_duration_changed"
    /\ default_duration_ms = 10
    /\ Len(frames) = 2
    /\ frames[1].is_custom_duration /\ frames[1].duration_ms = 50
    /\ frames[1].is_checked
    /\ ~frames[2].is_custom_duration /\ frames[2].duration_ms = 10

\* C18: an add appends one frame per chosen file, in order, each with the
\* current default_duration_ms, not pinned and not checked, and leaves the
\* frames already there as they are; the cursor becomes 0, the index of the
\* first new frame, if the timeline was empty and is otherwise unchanged
C18_AddAppends ==
    [][\A files \in FileChoices(AddFiles, 1..MaxFrames) :
          AddImages(files)
          => /\ Len(frames') = Len(frames) + Len(files)
             /\ \A k \in 1..Len(frames) : frames'[k] = frames[k]
             /\ \A k \in 1..Len(files) :
                   frames'[Len(frames) + k] =
                       [source_path |-> files[k], display_name |-> files[k],
                        duration_ms |-> default_duration_ms,
                        is_custom_duration |-> FALSE, is_checked |-> FALSE]
             /\ current_index' = IF frames = <<>> THEN 0 ELSE current_index
             /\ default_duration_ms' = default_duration_ms]_vars

C18_Witness ==
    /\ out.handler = "add_images"
    /\ default_duration_ms = 50
    /\ Len(frames) = 2
    /\ frames[1].is_checked /\ frames[1].is_custom_duration
    /\ frames[1].duration_ms = 10
    /\ frames[2] = FrameData("b.png", "b.png", 50, FALSE, FALSE)
    /\ current_index = 0

\* C19: a duplicate with a valid row selected inserts, right after that row,
\* a frame with the row's source and duration whose display name is the
\* row's followed by _copy, keeps every other frame in its place relative to
\* the others, and moves the cursor to the new frame; with no valid row
\* selected it changes nothing
C19_DuplicateInsertsCopy ==
    [][DuplicateSelected
       => IF tree_current \notin Rows
          THEN UNCHANGED <<frames, current_index>>
          ELSE LET idx == tree_current
                   f   == frames[idx + 1]
                   dup == frames'[idx + 2]
               IN /\ Len(frames') = Len(frames) + 1
                  /\ \A k \in 1..(idx + 1) : frames'[k] = frames[k]
                  /\ \A k \in (idx + 3)..Len(frames') : frames'[k] = frames[k - 1]
                  /\ dup.source_path = f.source_path
                  /\ dup.duration_ms = f.duration_ms
                  /\ dup.display_name = f.display_name \o "_copy"
                  /\ current_index' = idx + 1]_vars

C19_Witness ==
    /\ out.handler = "duplicate_selected"
    /\ Len(frames) = 3
    /\ frames[1].display_name = "a.png" /\ frames[1].duration_ms = 10
    /\ frames[2].display_name = "a.png_copy" /\ frames[2].source_path = "a.png"
    /\ frames[2].duration_ms = 10
    /\ frames[3].display_name = "b.png" /\ frames[3].duration_ms = 100
    /\ current_index = 1

\* C20: an import that goes through leaves, when every extracted duration
\* is the same, that duration as default_duration_ms and no frame pinned;
\* otherwise it leaves default_duration_ms as it was, every frame with its
\* own extracted duration, and pinned exactly the frames whose duration
\* differs from default_duration_ms
C20_ImportPostPass ==
    [][\A g \in TimingGuardEnvs, decl \in Declarations :
          /\ MaybeSaveBeforeDiscard(frames, current_gif_path, unsaved_changes,
                                    g.resp, g.e).proceed
          /\ OpenGif(OpenPath, g, TRUE, decl, 0)
          => LET ext == [k \in 1..Len(decl) |->
                            IF decl[k] = NoDuration THEN default_duration_ms
                            ELSE decl[k]]
             IN /\ Len(frames') = Len(decl)
                /\ IF \A k \in 1..Len(ext) : ext[k] = ext[1]
                   THEN /\ default_duration_ms' = ext[1]
                        /\ \A k \in 1..Len(ext) : ~frames'[k].is_custom_duration
                   ELSE /\ default_duration_ms' = default_duration_ms
                        /\ \A k \in 1..Len(ext) :
                              /\ frames'[k].duration_ms = ext[k]
                              /\ frames'[k].is_custom_duration
                                     = (ext[k] # default_duration_ms)]_vars

\* the unsaved-changes guard of the step let the slot go on: the flag was not
\* set, or the answer was No, or it was Yes and the save went through
GuardPassed ==
    \/ ~unsaved_changes
    \/ out'.resp = "No"
    \/ out'.resp = "Yes" /\ out'.save = MsgSaved

\* the file names open_gif gives the sub-images of g.gif
ImportedNames == <<"g_001.png", "g_002.png", "g_003.png", "g_004.png">>

\* C21: after an import that goes through, the timeline holds the decoded
\* sub-images only, in decode order, none checked; the cursor is 0 if there
\* are frames and -1 otherwise; the unsaved-changes flag is not set; and
\* is_playing is set with a tick pending exactly if there are frames
C21_ImportReplacesTimeline ==
    [][out'.handler = "open_gif" /\ out'.message = "" /\ GuardPassed
       => /\ \A k \in 1..Len(frames') :
                /\ frames'[k].source_path = ImportedNames[k]
                /\ frames'[k].display_name = ImportedNames[k]
                /\ ~frames'[k].is_checked
          /\ current_index' = (IF frames' # <<>> THEN 0 ELSE -1)
          /\ ~unsaved_changes'
          /\ current_gif_path' = OpenPath
          /\ (is_playing' /\ play_timer' # 0) <=> frames' # <<>>]_vars

C21_Witness ==
    /\ out.handler = "open_gif"
    /\ out.message = ""
    /\ out.resp = "No"
    /\ Len(frames) = 2
    /\ frames[1].source_path = "g_001.png"
    /\ frames[2].source_path = "g_002.png"
    /\ current_index = 0
    /\ ~unsaved_changes
    /\ is_playing /\ play_timer # 0

RECURSIVE NamesOf(_, _, _)
\* the display names of the frames of fr whose index is in S, from 0-based
\* index i on, in timeline order
NamesOf(fr, S, i) ==
    IF i >= Len(fr) THEN <<>>
    ELSE (IF i \in S THEN <<fr[i + 1].display_name>> ELSE <<>>) \o NamesOf(fr, S, i + 1)

\* C22: an export with no frame checked shows "No checked frames to export."
\* and picks no folder; an export into a picked folder writes exactly the
\* checked frames whose source can be read, in order, whatever happens to
\* the others, and reports the number of files it wrote
C22_ExportChecked ==
    out.handler = "export_checked" =>
        /\ CheckedRows(frames) = {}
               => out.message = MsgNothingChecked /\ out.path = NoPath /\ ~out.wrote
        /\ CheckedRows(frames) # {} /\ out.path # NoPath
               => /\ running
                  /\ out.images = NamesOf(frames, CheckedRows(frames) \cap out.loaded, 0)
                  /\ out.message = ExportedMsg(Len(out.images))

\* C23: a timeline of N frames that all load and whose durations differ
\* pairwise is saved to a GIF file and that file is opened: the timeline
\* then holds N frames, the k-th with the k-th saved duration less at most
\* the part below the file's time unit, and is_custom_duration tells for
\* each whether its duration differs from the default after the import
C23_RoundTrip ==
    [][/\ out.wrote /\ Len(out.durations) = Len(frames)
       /\ \A j, k \in 1..Len(out.durations) :
             j # k => out.durations[j] # out.durations[k]
       /\ out'.handler = "open_gif" /\ out'.message = ""
       => /\ Len(frames') = Len(out.durations)
          /\ \A k \in 1..Len(frames') :
                /\ out.durations[k] - frames'[k].duration_ms \in 0..9
                /\ frames'[k].is_custom_duration
                      <=> frames'[k].duration_ms # default_duration_ms']_vars

\* C24: while the window runs, every frame whose is_custom_duration is
\* false has the default duration as its duration_ms, so that the default
\* shown in its row is the duration it plays and is saved with
C24_UnpinnedFollowDefault ==
    running => \A k \in 1..Len(frames) :
                   ~frames[k].is_custom_duration
                       => frames[k].duration_ms = default_duration_ms

\* an imported frame that declares no duration stands, at a default set
\* before the import, next to one that declares its own
C24_Witness ==
    /\ running /\ Len(frames) = 2 /\ default_duration_ms = 10
    /\ frames[1].source_path = "g_001.png" /\ ~frames[1].is_custom_duration
    /\ frames[1].duration_ms = 10
    /\ frames[2].is_custom_duration /\ frames[2].duration_ms = 40

\* C25: a remove or a new project that empties the timeline during playback
\* leaves is_playing true and the timer pending, with the cursor at -1; a
\* tick on the empty timeline stops playback and the timer and moves
\* neither the cursor nor the wave direction; an add leaves a running timer
\* as it is and starts playback when it is stopped
C25_EmptiedWhilePlaying ==
    /\ [][out'.handler \in {"remove_selected", "new_project"}
          /\ is_playing /\ frames # <<>> /\ frames' = <<>>
          => /\ is_playing' /\ play_timer' # 0 /\ play_timer' = play_timer
             /\ current_index' = -1]_vars
    /\ [][out'.handler = "advance_frame_for_playback" /\ frames = <<>>
          => /\ ~is_playing' /\ play_timer' = 0
             /\ frames' = <<>>
             /\ current_index = -1 /\ current_index' = -1
             /\ wave_direction' = wave_direction]_vars
    /\ [][out'.handler = "add_images" /\ frames' # frames
          => /\ is_playing'
             /\ play_timer' = (IF is_playing THEN play_timer
                               ELSE Max(MinTimerMs,
                                        frames'[current_index' + 1].duration_ms))]_vars

\* the tick after the last frame was removed during playback
C25_Witness ==
    /\ out.handler = "advance_frame_for_playback"
    /\ frames = <<>> /\ current_index = -1 /\ unsaved_changes
    /\ ~is_playing /\ play_timer = 0

\* the step is an edit that takes effect: files are added, the selected row
\* is removed, duplicated or moved, a row is checked or unchecked, a
\* duration is entered, the default is set or written to all frames, or the
\* mode is changed
EffectiveEdit ==
    \/ \E files \in FileChoices({"a.png"}, 1..MaxFrames) : AddImages(files)
    \/ tree_current \in Rows /\ (RemoveSelected \/ DuplicateSelected)
    \/ tree_current \in Rows /\ tree_current > 0 /\ MoveUp
    \/ tree_current \in Rows /\ tree_current < Len(frames) - 1 /\ MoveDown
    \/ \E idx \in Rows : ToggleChecked(idx)
    \/ \E idx \in Rows, typed \in UnsavedDurations : EditDurationForFrame(idx, typed, TRUE)
    \/ \E typed \in UnsavedDurations : OnDefaultDurationChanged(typed)
    \/ OnOverwriteAllClicked
    \/ \E mode \in Modes : OnModeChanged(mode)

\* the step is an edit that does nothing: a remove or a duplicate with no
\* row selected, a move of the first row up or of the last row down
NoOpEdit ==
    \/ tree_current \notin Rows /\ (RemoveSelected \/ DuplicateSelected)
    \/ tree_current <= 0 /\ MoveUp
    \/ (tree_current < 0 \/ tree_current >= Len(frames) - 1) /\ MoveDown

\* the step is a tick, a start or stop of playback, or a manual step
PlaybackStep ==
    AdvanceFrameForPlayback \/ TogglePlayPause \/ PrevFrameClicked \/ NextFrameClicked

\* what maybe_save_before_discard gives under the answers g
Guard(g) ==
    MaybeSaveBeforeDiscard(frames, current_gif_path, unsaved_changes, g.resp, g.e)

\* the step is a save that wrote the file, asked for by the user or by the
\* "Unsaved Changes" question of a new project or an open
SavedStep ==
    \/ \E e \in UnsavedSaveEnvs(current_gif_path = NoPath) :
          /\ SaveGifResult(frames, current_gif_path, unsaved_changes, e).result.save
                = MsgSaved
          /\ SaveGif(e)
    \/ \E e \in UnsavedSaveEnvs(TRUE) :
          /\ SaveGifAsResult(frames, current_gif_path, unsaved_changes, e).result.save
                = MsgSaved
          /\ SaveGifAs(e)
    \/ \E g \in UnsavedGuardEnvs :
          /\ Guard(g).result.save = MsgSaved
          /\ \/ NewProject(g)
             \/ OpenGif(OpenPath, g, FALSE, <<NoDuration>>, 0)
             \/ \E d \in UnsavedDecodings : OpenGif(OpenPath, g, TRUE, d[1], d[2])

\* the step is an import that replaced the timeline
ImportedStep ==
    \E g \in UnsavedGuardEnvs, d \in UnsavedDecodings :
        Guard(g).proceed /\ d[2] = 0 /\ OpenGif(OpenPath, g, TRUE, d[1], 0)

\* the step is a new project that went on
NewProjectStep == \E g \in UnsavedGuardEnvs : Guard(g).proceed /\ NewProject(g)

\* C26: unsaved_changes is true after every edit that takes effect; it goes
\* from true to false only by a successful save, a successful import or a
\* new project, each of which leaves it false; a tick, a start or stop and
\* a manual step leave it as it is, and so does an edit that does nothing
C26_UnsavedFlag ==
    /\ [][unsaved_changes' \/ ~EffectiveEdit]_vars
    /\ [][unsaved_changes /\ ~unsaved_changes'
          => SavedStep \/ ImportedStep \/ NewProjectStep]_vars
    /\ [][~unsaved_changes' \/ ~(SavedStep \/ ImportedStep \/ NewProjectStep)]_vars
    /\ [][(unsaved_changes' = unsaved_changes /\ frames' = frames)
          \/ ~(PlaybackStep \/ NoOpEdit)]_vars

\* a frame added to an imported timeline has been moved up
C26_Witness ==
    /\ unsaved_changes /\ current_gif_path = OpenPath /\ Len(frames) = 2
    /\ frames[1].source_path = "a.png" /\ frames[2].source_path = "g_001.png"
    /\ current_index = 0

====
